---- MODULE Spec2Model ----
(***************************************************************************)
(* Model of ml4h/tensormap/gatk.py: the two passthrough readers            *)
(* (reference_tensor_from_hd5, read_tensor_from_hd5) and the one-hot label *)
(* encoder (variant_label_from_hd5), called by concurrent threads on a set *)
(* of tensor maps and hd5 sample records.                                  *)
(*                                                                         *)
(* An ndarray is [shape |-> <<d1, ...>>, data |-> <<...>>]; float 0.0/1.0  *)
(* entries of the one-hot vector are the integers 0/1.  A dict is the      *)
(* sequence of its (key, value) entries in insertion order.                *)
(***************************************************************************)
EXTENDS Integers, Sequences, FiniteSets, TLC

VARIABLES
    tms,          \* tensor map objects, by position in the registry
    hd5s,         \* hd5 sample records: [open, fields]
    dependents,   \* the dict objects passed as 'dependents'
    pc,           \* per thread: line of the running call, "idle" or "done"
    args,         \* per thread: the bound arguments [tm, hd5, dependents]
    one_hot,      \* per thread: local one_hot of variant_label_from_hd5
    label,        \* per thread: local variant_label (the coerced string)
    it,           \* per thread: position of the for loop in tm.channel_map
    outcome       \* per thread: what the call returned or raised

vars == <<tms, hd5s, dependents, pc, args, one_hot, label, it, outcome>>

---------------------------------------------------------------------------
(* Bounds *)

\* largest declared vector length of the additional categorical tensor maps
MaxLen == 3

Threads == {"t1", "t2"}

---------------------------------------------------------------------------
(* Values *)

NoArray == [shape |-> <<>>, data |-> <<>>]
NoArgs == [tm |-> 0, hd5 |-> 0, dependents |-> "none"]
NoOutcome == [kind |-> "none", exc |-> "", args |-> <<>>, val |-> NoArray]

Returned(a) == [kind |-> "return", exc |-> "", args |-> <<>>, val |-> a]
Raised(e, a) == [kind |-> "raise", exc |-> e, args |-> a, val |-> NoArray]

Entry(k, v) == [key |-> k, value |-> v]

\* dict operations on insertion-ordered entry sequences
Keys(d) == {d[j].key : j \in 1..Len(d)}
Get(d, k) == d[CHOOSE j \in 1..Len(d) : d[j].key = k].value

---------------------------------------------------------------------------
(* Module-level objects of gatk.py *)

TensorMap(name, shape, tensor_from_file, channel_map) ==
    [name |-> name, shape |-> shape, tensor_from_file |-> tensor_from_file,
     channel_map |-> channel_map]

reference ==
    TensorMap("reference", <<128>>, "reference_tensor_from_hd5", <<>>)

read_tensor ==
    TensorMap("read_tensor", <<128, 128, 15>>, "read_tensor_from_hd5", <<>>)

\* faulty variant: an index outside [0, 4)
variant_label_channel_map_bad ==
    <<Entry("NOT_SNP", 0), Entry("NOT_INDEL", 1), Entry("SNP", 2), Entry("INDEL", 4)>>

variant_label_channel_map ==
    <<Entry("NOT_SNP", 0), Entry("NOT_INDEL", 1), Entry("SNP", 2), Entry("INDEL", 3)>>

variant_label ==
    TensorMap("variant_label", <<Len(variant_label_channel_map)>>,
              "variant_label_from_hd5", variant_label_channel_map)

\* A second categorical vocabulary, in another order than the registered one,
\* carried by tensor maps of every declared length 1..MaxLen.
other_channel_map == <<Entry("SNP", 1), Entry("INDEL", 0)>>

OtherTensorMap(n) ==
    TensorMap("other_label", <<n>>, "variant_label_from_hd5", other_channel_map)

InitTensorMaps ==
    <<reference, read_tensor, variant_label>>
        \o [n \in 1..MaxLen |-> OtherTensorMap(n)]

---------------------------------------------------------------------------
(* Sample records *)

Dataset(shape, data) == [shape |-> shape, data |-> data]
StrScalar(s) == [kind |-> "str", val |-> s]
BytesScalar(s) == [kind |-> "bytes", val |-> s]

Record(present, ref, rt, lab) ==
    [open |-> TRUE, present |-> present,
     reference |-> ref, read_tensor |-> rt, variant_label |-> lab]

AllFields == {"reference", "read_tensor", "variant_label"}

InitRecords ==
    << Record(AllFields, Dataset(<<128>>, <<7>>), Dataset(<<128, 128, 15>>, <<8>>),
              StrScalar("SNP")),
       Record(AllFields, Dataset(<<64>>, <<9>>), Dataset(<<128, 128, 15>>, <<8>>),
              StrScalar("INDEL")),
       Record(AllFields, Dataset(<<128>>, <<7>>), Dataset(<<128, 128>>, <<5>>),
              StrScalar("NOT_SNP")),
       Record(AllFields, Dataset(<<128>>, <<7>>), Dataset(<<128, 128, 15>>, <<8>>),
              StrScalar("NOT_INDEL")),
       Record(AllFields, Dataset(<<128>>, <<7>>), Dataset(<<128, 128, 15>>, <<8>>),
              StrScalar("UNKNOWN")),
       Record(AllFields, Dataset(<<128>>, <<7>>), Dataset(<<128, 128, 15>>, <<8>>),
              StrScalar("")),
       Record(AllFields, Dataset(<<128>>, <<7>>), Dataset(<<128, 128, 15>>, <<8>>),
              BytesScalar("SNP")),
       Record({}, NoArray, NoArray, StrScalar("")) >>

InitDependents == [d \in {"default", "passed"} |->
                      IF d = "default" THEN <<>> ELSE <<Entry("other", 1)>>]

---------------------------------------------------------------------------
(* Library operations used by gatk.py *)

RECURSIVE ProdTo(_, _)
ProdTo(shape, n) == IF n = 0 THEN 1 ELSE shape[n] * ProdTo(shape, n - 1)
Prod(shape) == ProdTo(shape, Len(shape))

RECURSIVE SumTo(_, _)
SumTo(data, n) == IF n = 0 THEN 0 ELSE data[n] + SumTo(data, n - 1)
Sum(data) == SumTo(data, Len(data))

\* np.zeros(shape, dtype=np.float32)
np_zeros(shape) == [shape |-> shape, data |-> [j \in 1..Prod(shape) |-> 0]]

\* np.array(dataset): the dataset's contents, in the dataset's own shape
np_array(ds) == [shape |-> ds.shape, data |-> ds.data]

\* str(x) of the scalar read by [()]: a str is itself, bytes give their repr
py_str(x) == IF x.kind = "str" THEN x.val ELSE "b'" \o x.val \o "'"

\* hd5[key]: whether the lookup finds the field (KeyError otherwise)
hd5_has(h, key) == key \in h.present

\* the body of the for loop for one channel (lines 26-27) on a 1-d one_hot:
\* assigning past the end of the vector raises IndexError
\* faulty variant: writes at the channel's position instead of its index
scan_step_by_position(cm, j, v, vec) ==
    IF cm[j].key = v
    THEN IF j - 1 < vec.shape[1]
         THEN Returned([vec EXCEPT !.data[j] = 1])
         ELSE Raised("IndexError", <<j - 1>>)
    ELSE Returned(vec)

scan_step(cm, j, v, vec) ==
    IF cm[j].key = v
    THEN IF cm[j].value < vec.shape[1]
         THEN Returned([vec EXCEPT !.data[cm[j].value + 1] = 1])
         ELSE Raised("IndexError", <<cm[j].value>>)
    ELSE Returned(vec)

\* lines 28-30
\* faulty variant: no sum check, the vector is returned as it is
check_sum_no_validation(tm, vec) == Returned(vec)

\* faulty variant: the message leaves out tm.name
check_sum_no_name(tm, vec) ==
    IF Sum(vec.data) # 1
    THEN Raised("ValueError", <<"TensorMap ", " missing or invalid label">>)
    ELSE Returned(vec)

check_sum(tm, vec) ==
    IF Sum(vec.data) # 1
    THEN Raised("ValueError", <<"TensorMap ", tm.name, " missing or invalid label">>)
    ELSE Returned(vec)

---------------------------------------------------------------------------
(* The state machine *)

Init ==
    /\ tms = InitTensorMaps
    /\ hd5s = InitRecords
    /\ dependents = InitDependents
    /\ pc = [t \in Threads |-> "idle"]
    /\ args = [t \in Threads |-> NoArgs]
    /\ one_hot = [t \in Threads |-> NoArray]
    /\ label = [t \in Threads |-> ""]
    /\ it = [t \in Threads |-> 0]
    /\ outcome = [t \in Threads |-> NoOutcome]

TM(t) == tms[args[t].tm]
HD5(t) == hd5s[args[t].hd5]

EntryLine(f) ==
    CASE f = "reference_tensor_from_hd5" -> "L9"
      [] f = "read_tensor_from_hd5" -> "L16"
      [] f = "variant_label_from_hd5" -> "L23"

\* tm.tensor_from_file(tm, hd5, dependents), dependents omitted or passed
Call(t) ==
    /\ pc[t] = "idle"
    /\ \E m \in DOMAIN tms, r \in DOMAIN hd5s, d \in DOMAIN dependents :
          /\ args' = [args EXCEPT ![t] = [tm |-> m, hd5 |-> r, dependents |-> d]]
          /\ pc' = [pc EXCEPT ![t] = EntryLine(tms[m].tensor_from_file)]
    /\ UNCHANGED <<tms, hd5s, dependents, one_hot, label, it, outcome>>

Finish(t, o) ==
    /\ outcome' = [outcome EXCEPT ![t] = o]
    /\ pc' = [pc EXCEPT ![t] = "done"]

\* line 9
\* faulty variant: the array is given the shape tm.shape
reference_tensor_from_hd5_reshaped(t) ==
    /\ pc[t] = "L9"
    /\ Finish(t, IF hd5_has(HD5(t), "reference")
                 THEN Returned([np_array(HD5(t).reference) EXCEPT !.shape = TM(t).shape])
                 ELSE Raised("KeyError", <<"reference">>))
    /\ UNCHANGED <<tms, hd5s, dependents, args, one_hot, label, it>>

reference_tensor_from_hd5(t) ==
    /\ pc[t] = "L9"
    /\ Finish(t, IF hd5_has(HD5(t), "reference")
                 THEN Returned(np_array(HD5(t).reference))
                 ELSE Raised("KeyError", <<"reference">>))
    /\ UNCHANGED <<tms, hd5s, dependents, args, one_hot, label, it>>

\* line 16
\* faulty variant: a missing field is swallowed and an empty array returned
read_tensor_from_hd5_default(t) ==
    /\ pc[t] = "L16"
    /\ Finish(t, IF hd5_has(HD5(t), "read_tensor")
                 THEN Returned(np_array(HD5(t).read_tensor))
                 ELSE Returned(NoArray))
    /\ UNCHANGED <<tms, hd5s, dependents, args, one_hot, label, it>>

read_tensor_from_hd5(t) ==
    /\ pc[t] = "L16"
    /\ Finish(t, IF hd5_has(HD5(t), "read_tensor")
                 THEN Returned(np_array(HD5(t).read_tensor))
                 ELSE Raised("KeyError", <<"read_tensor">>))
    /\ UNCHANGED <<tms, hd5s, dependents, args, one_hot, label, it>>

\* line 23
\* faulty variant: the call records itself in the dependents dict
L23_records_dependent(t) ==
    /\ pc[t] = "L23"
    /\ one_hot' = [one_hot EXCEPT ![t] = np_zeros(TM(t).shape)]
    /\ dependents' = [dependents EXCEPT ![args[t].dependents] =
                         IF TM(t).name \in Keys(@) THEN @
                         ELSE Append(@, Entry(TM(t).name, 1))]
    /\ pc' = [pc EXCEPT ![t] = "L24"]
    /\ UNCHANGED <<tms, hd5s, args, label, it, outcome>>

L23(t) ==
    /\ pc[t] = "L23"
    /\ one_hot' = [one_hot EXCEPT ![t] = np_zeros(TM(t).shape)]
    /\ pc' = [pc EXCEPT ![t] = "L24"]
    /\ UNCHANGED <<tms, hd5s, dependents, args, label, it, outcome>>

\* line 24
\* faulty variant: the record is closed after the read
L24_closes(t) ==
    /\ pc[t] = "L24"
    /\ IF hd5_has(HD5(t), "variant_label")
       THEN /\ label' = [label EXCEPT ![t] = py_str(HD5(t).variant_label)]
            /\ it' = [it EXCEPT ![t] = 1]
            /\ pc' = [pc EXCEPT ![t] = "L25"]
            /\ hd5s' = [hd5s EXCEPT ![args[t].hd5].open = FALSE]
            /\ UNCHANGED outcome
       ELSE /\ Finish(t, Raised("KeyError", <<"variant_label">>))
            /\ UNCHANGED <<label, it, hd5s>>
    /\ UNCHANGED <<tms, dependents, args, one_hot>>

L24(t) ==
    /\ pc[t] = "L24"
    /\ IF hd5_has(HD5(t), "variant_label")
       THEN /\ label' = [label EXCEPT ![t] = py_str(HD5(t).variant_label)]
            /\ it' = [it EXCEPT ![t] = 1]
            /\ pc' = [pc EXCEPT ![t] = "L25"]
            /\ UNCHANGED outcome
       ELSE /\ Finish(t, Raised("KeyError", <<"variant_label">>))
            /\ UNCHANGED <<label, it>>
    /\ UNCHANGED <<tms, hd5s, dependents, args, one_hot>>

\* lines 25-27: one iteration of the loop, or its exit to line 28
\* faulty variant: one buffer shared by the calls of a shape
L25_shared_buffer(t) ==
    /\ pc[t] = "L25"
    /\ IF it[t] > Len(TM(t).channel_map)
       THEN /\ pc' = [pc EXCEPT ![t] = "L28"]
            /\ UNCHANGED <<one_hot, it, outcome>>
       ELSE LET s == scan_step(TM(t).channel_map, it[t], label[t], one_hot[t])
            IN  IF s.kind = "raise"
                THEN /\ Finish(t, s)
                     /\ UNCHANGED <<one_hot, it>>
                ELSE /\ one_hot' = [u \in Threads |->
                                      IF u = t \/ one_hot[u].shape = s.val.shape
                                      THEN s.val ELSE one_hot[u]]
                     /\ it' = [it EXCEPT ![t] = @ + 1]
                     /\ UNCHANGED <<pc, outcome>>
    /\ UNCHANGED <<tms, hd5s, dependents, args, label>>

\* faulty variant: the matched entry is removed from tm.channel_map
L25_consumes_channel(t) ==
    /\ pc[t] = "L25"
    /\ IF it[t] > Len(TM(t).channel_map)
       THEN /\ pc' = [pc EXCEPT ![t] = "L28"]
            /\ UNCHANGED <<one_hot, it, outcome, tms>>
       ELSE LET cm == TM(t).channel_map
                s == scan_step(cm, it[t], label[t], one_hot[t])
            IN  IF s.kind = "raise"
                THEN /\ Finish(t, s)
                     /\ UNCHANGED <<one_hot, it, tms>>
                ELSE /\ one_hot' = [one_hot EXCEPT ![t] = s.val]
                     /\ IF cm[it[t]].key = label[t]
                        THEN /\ tms' = [tms EXCEPT ![args[t].tm].channel_map =
                                           SubSeq(cm, 1, it[t] - 1)
                                             \o SubSeq(cm, it[t] + 1, Len(cm))]
                             /\ UNCHANGED it
                        ELSE /\ it' = [it EXCEPT ![t] = @ + 1]
                             /\ UNCHANGED tms
                     /\ UNCHANGED <<pc, outcome>>
    /\ UNCHANGED <<hd5s, dependents, args, label>>

L25(t) ==
    /\ pc[t] = "L25"
    /\ IF it[t] > Len(TM(t).channel_map)
       THEN /\ pc' = [pc EXCEPT ![t] = "L28"]
            /\ UNCHANGED <<one_hot, it, outcome>>
       ELSE LET s == scan_step(TM(t).channel_map, it[t], label[t], one_hot[t])
            IN  IF s.kind = "raise"
                THEN /\ Finish(t, s)
                     /\ UNCHANGED <<one_hot, it>>
                ELSE /\ one_hot' = [one_hot EXCEPT ![t] = s.val]
                     /\ it' = [it EXCEPT ![t] = @ + 1]
                     /\ UNCHANGED <<pc, outcome>>
    /\ UNCHANGED <<tms, hd5s, dependents, args, label>>

\* lines 28-30
L28(t) ==
    /\ pc[t] = "L28"
    /\ Finish(t, check_sum(TM(t), one_hot[t]))
    /\ UNCHANGED <<tms, hd5s, dependents, args, one_hot, label, it>>

variant_label_from_hd5(t) == L23(t) \/ L24(t) \/ L25(t) \/ L28(t)

\* the caller takes the outcome; the frame's locals are gone
Return(t) ==
    /\ pc[t] = "done"
    /\ pc' = [pc EXCEPT ![t] = "idle"]
    /\ args' = [args EXCEPT ![t] = NoArgs]
    /\ one_hot' = [one_hot EXCEPT ![t] = NoArray]
    /\ label' = [label EXCEPT ![t] = ""]
    /\ it' = [it EXCEPT ![t] = 0]
    /\ outcome' = [outcome EXCEPT ![t] = NoOutcome]
    /\ UNCHANGED <<tms, hd5s, dependents>>

Next ==
    \E t \in Threads :
        \/ Call(t)
        \/ reference_tensor_from_hd5(t)
        \/ read_tensor_from_hd5(t)
        \/ variant_label_from_hd5(t)
        \/ Return(t)

Spec == Init /\ [][Next]_vars

---------------------------------------------------------------------------
(* The functions as single evaluations: what a call gives when run alone *)

RECURSIVE scan(_, _, _, _)
scan(cm, j, v, vec) ==
    IF j > Len(cm) THEN Returned(vec)
    ELSE LET s == scan_step(cm, j, v, vec)
         IN  IF s.kind = "raise" THEN s ELSE scan(cm, j + 1, v, s.val)

variant_label_result(tm, h) ==
    IF ~hd5_has(h, "variant_label") THEN Raised("KeyError", <<"variant_label">>)
    ELSE LET s == scan(tm.channel_map, 1, py_str(h.variant_label), np_zeros(tm.shape))
         IN  IF s.kind = "raise" THEN s ELSE check_sum(tm, s.val)

passthrough_result(h, key) ==
    IF hd5_has(h, key) THEN Returned(np_array(h[key])) ELSE Raised("KeyError", <<key>>)

tensor_from_file(tm, h) ==
    CASE tm.tensor_from_file = "reference_tensor_from_hd5" ->
             passthrough_result(h, "reference")
      [] tm.tensor_from_file = "read_tensor_from_hd5" ->
             passthrough_result(h, "read_tensor")
      [] tm.tensor_from_file = "variant_label_from_hd5" ->
             variant_label_result(tm, h)

---------------------------------------------------------------------------
(* Properties *)

Done(t) == pc[t] = "done"
LabelCall(t) == Done(t) /\ TM(t).tensor_from_file = "variant_label_from_hd5"
ReaderCall(t) == Done(t) /\ TM(t).tensor_from_file # "variant_label_from_hd5"
ReaderField(t) ==
    IF TM(t).tensor_from_file = "reference_tensor_from_hd5"
    THEN "reference" ELSE "read_tensor"
CallField(t) == IF LabelCall(t) THEN "variant_label" ELSE ReaderField(t)

Dense(cm) == {cm[j].value : j \in 1..Len(cm)} = 0..(Len(cm) - 1)
OneHot(n, k) == [shape |-> <<n>>, data |-> [j \in 1..n |-> IF j = k + 1 THEN 1 ELSE 0]]
Carries(msg, x) == \E j \in 1..Len(msg) : msg[j] = x

\* the field of the record is the string v, a key of the dense channel map
KeyedLabelCall(t) ==
    /\ LabelCall(t)
    /\ hd5_has(HD5(t), "variant_label")
    /\ HD5(t).variant_label.kind = "str"
    /\ HD5(t).variant_label.val \in Keys(TM(t).channel_map)
    /\ Dense(TM(t).channel_map)

ExpectedOneHot(t) ==
    Returned(OneHot(Len(TM(t).channel_map),
                    Get(TM(t).channel_map, HD5(t).variant_label.val)))

\* C1 as stated: for every dense channel map M with N entries and every key v
\* of M, the encoder returns the length-N vector that is 1 at M[v] and 0
\* elsewhere, whatever shape the tensor map declares.
C1_Original ==
    \A t \in Threads : KeyedLabelCall(t) => outcome[t] = ExpectedOneHot(t)

\* C1 amended: for every tensor map whose declared shape is (N,), with M its
\* dense channel map of N entries, and every key v of M, the encoder returns
\* the length-N vector that is 1 at M[v] and 0 elsewhere.
C1_OneHotWhenShapeMatches ==
    \A t \in Threads :
        (KeyedLabelCall(t) /\ TM(t).shape = <<Len(TM(t).channel_map)>>)
            => outcome[t] = ExpectedOneHot(t)

C1_Witness ==
    \E t \in Threads :
        /\ KeyedLabelCall(t)
        /\ TM(t) = variant_label
        /\ HD5(t).variant_label = StrScalar("SNP")
        /\ outcome[t] = Returned([shape |-> <<4>>, data |-> <<0, 0, 1, 0>>])

AbsentLabelCall(t) ==
    /\ LabelCall(t)
    /\ hd5_has(HD5(t), "variant_label")
    /\ py_str(HD5(t).variant_label) \notin Keys(TM(t).channel_map)

\* C2: when the coerced field value is not a key of the channel map, the
\* encoder raises its validation error (ValueError) and returns no vector.
C2_AbsentValueRaises ==
    \A t \in Threads :
        AbsentLabelCall(t) =>
            /\ outcome[t].kind = "raise"
            /\ outcome[t].exc = "ValueError"
            /\ outcome[t].val = NoArray

C2_Witness ==
    \E t, u \in Threads :
        /\ AbsentLabelCall(t) /\ HD5(t).variant_label = StrScalar("")
        /\ AbsentLabelCall(u) /\ HD5(u).variant_label = StrScalar("UNKNOWN")
        /\ TM(t) = variant_label
        /\ outcome[t].exc = "ValueError" /\ outcome[u].exc = "ValueError"

SumCheckFailed(t) == Done(t) /\ outcome[t].exc = "ValueError"

\* C3 as stated: the error of a failed sum check carries both tm.name and the
\* field value that failed to match.
C3_Original ==
    \A t \in Threads :
        SumCheckFailed(t) =>
            /\ Carries(outcome[t].args, TM(t).name)
            /\ Carries(outcome[t].args, label[t])

\* C3 amended: the error of a failed sum check carries tm.name inside a fixed
\* text and nothing else; the field value is not part of it.
C3_ErrorCarriesNameOnly ==
    \A t \in Threads :
        SumCheckFailed(t) =>
            /\ Carries(outcome[t].args, TM(t).name)
            /\ outcome[t].args = <<"TensorMap ", TM(t).name, " missing or invalid label">>

C3_Witness ==
    \E t \in Threads :
        /\ SumCheckFailed(t)
        /\ label[t] = "UNKNOWN"
        /\ Carries(outcome[t].args, "variant_label")
        /\ ~Carries(outcome[t].args, label[t])

PresentReaderCall(t) == ReaderCall(t) /\ hd5_has(HD5(t), ReaderField(t))

\* C4 as stated: for every record holding the field, the array a passthrough
\* reader returns has shape tm.shape.
C4_Original ==
    \A t \in Threads :
        PresentReaderCall(t) =>
            outcome[t].kind = "return" /\ outcome[t].val.shape = TM(t).shape

\* C4 amended: for every record holding the field, a passthrough reader
\* returns the field's contents in the shape the field is stored with; tm.shape
\* is not consulted.
C4_ReaderKeepsStoredShape ==
    \A t \in Threads :
        PresentReaderCall(t) =>
            /\ outcome[t].kind = "return"
            /\ outcome[t].val.shape = HD5(t)[ReaderField(t)].shape
            /\ outcome[t].val.data = HD5(t)[ReaderField(t)].data

C4_Witness ==
    \E t \in Threads :
        /\ PresentReaderCall(t)
        /\ TM(t) = reference
        /\ HD5(t).reference.shape = <<64>>
        /\ outcome[t] = Returned([shape |-> <<64>>, data |-> <<9>>])

SameLabelInput(t, u) ==
    /\ LabelCall(t) /\ LabelCall(u)
    /\ args[t].tm = args[u].tm
    /\ hd5_has(HD5(t), "variant_label") = hd5_has(HD5(u), "variant_label")
    /\ hd5_has(HD5(t), "variant_label") =>
           py_str(HD5(t).variant_label) = py_str(HD5(u).variant_label)

\* C5: two calls of the encoder with the same tensor map and the same field
\* value have the same outcome, however many other calls ran before or
\* between them.
C5_Idempotent ==
    \A t, u \in Threads : SameLabelInput(t, u) => outcome[t] = outcome[u]

C5_Witness ==
    \E t, u \in Threads :
        /\ t # u
        /\ SameLabelInput(t, u)
        /\ outcome[t].kind = "return"
        /\ outcome[u].kind = "return"

\* C6: no operation mutates or closes a sample record or mutates a tensor map
\* or its channel map.
C6_NoMutation == tms = InitTensorMaps /\ hd5s = InitRecords

C6_Witness ==
    \E t, u \in Threads :
        /\ Done(t) /\ outcome[t].kind = "return"
        /\ LabelCall(u) /\ outcome[u].kind = "raise"
        /\ hd5s[args[t].hd5].open /\ hd5s[args[u].hd5].open

MissingFieldCall(t) == Done(t) /\ ~hd5_has(HD5(t), CallField(t))

\* C7: when the named field is missing, each operation ends with the
\* container's own KeyError for that field and returns no array.
C7_MissingFieldPropagates ==
    \A t \in Threads :
        MissingFieldCall(t) => outcome[t] = Raised("KeyError", <<CallField(t)>>)

C7_Witness ==
    \E t, u \in Threads :
        /\ MissingFieldCall(t) /\ LabelCall(t)
        /\ MissingFieldCall(u) /\ ReaderCall(u)
        /\ outcome[t].exc = "KeyError" /\ outcome[u].exc = "KeyError"

AloneOutcome(t) == tensor_from_file(InitTensorMaps[args[t].tm], InitRecords[args[t].hd5])

Stepped(t) == pc'[t] # pc[t] \/ it'[t] # it[t]

\* C8: under every interleaving each call ends with the outcome it has when
\* run alone, and a step of one call leaves the vector and the outcome of
\* every other call as they were.
C8_NoInterference ==
    /\ [](\A t \in Threads : Done(t) => outcome[t] = AloneOutcome(t))
    /\ [][\A t \in Threads :
             ~Stepped(t) => one_hot'[t] = one_hot[t] /\ outcome'[t] = outcome[t]]_vars

C8_Witness ==
    \E t, u \in Threads :
        /\ t # u
        /\ LabelCall(t) /\ outcome[t].kind = "return"
        /\ pc[u] = "L25" /\ it[u] > 1
        /\ args[u].tm = args[t].tm /\ args[u].hd5 # args[t].hd5
        /\ Sum(one_hot[u].data) = 1
        /\ one_hot[u] # one_hot[t]

\* C9: the registered variant_label map has no two names on one index, uses
\* every index of [0, 4) once, declares the shape (4,), and no call on it
\* writes outside its vector.
C9_RegisteredMapConsistent ==
    LET cm == variant_label.channel_map
        N == Len(cm)
    IN  /\ \A i, j \in 1..N : cm[i].value = cm[j].value => i = j
        /\ {cm[j].value : j \in 1..N} = 0..3
        /\ variant_label.shape = <<N>>
        /\ \A t \in Threads :
              (pc[t] # "idle" /\ TM(t).name = "variant_label") =>
                  /\ TM(t) = variant_label
                  /\ outcome[t].exc # "IndexError"
                  /\ one_hot[t] # NoArray => Len(one_hot[t].data) = N

C9_Witness ==
    \E t \in Threads :
        /\ LabelCall(t)
        /\ TM(t).name = "variant_label"
        /\ outcome[t] = Returned([shape |-> <<4>>, data |-> <<0, 0, 0, 1>>])

\* C10: no operation reads or writes 'dependents': the shared default dict
\* stays empty, a passed dict stays as it was, and two calls that differ only
\* in the dependents passed have the same outcome.
C10_DependentsUnused ==
    /\ dependents["default"] = <<>>
    /\ dependents = InitDependents
    /\ \A t, u \in Threads :
          (Done(t) /\ Done(u) /\ args[t].tm = args[u].tm /\ args[t].hd5 = args[u].hd5)
              => outcome[t] = outcome[u]

C10_Witness ==
    \E t, u \in Threads :
        /\ LabelCall(t) /\ LabelCall(u)
        /\ args[t].tm = args[u].tm /\ args[t].hd5 = args[u].hd5
        /\ args[t].dependents = "default" /\ args[u].dependents = "passed"
        /\ outcome[t].kind = "return"

====
